---- MODULE Spec2Model ----
(***************************************************************************)
(* Market price ingestion and reconciliation (power_price package).        *)
(*                                                                         *)
(* State: the persistent collection price_data (one document per           *)
(* (region, timestamp)), the unified report cache, the process-level       *)
(* dispatch cache of sync_price_data_to_mongodb, the upstream listings,    *)
(* and the wall clock.                                                     *)
(*                                                                         *)
(* Encoding.  Time is counted in settlement intervals (5 minutes); a file  *)
(* identifier YYYYMMDDHHMM and an ISO timestamp of the same instant are    *)
(* the same integer, the empty string '' of a file timestamp is 0.  A file *)
(* name is the sequence of its comma separated parts, each part            *)
(* [fam, ts]: fam tells which report-family substrings the part contains,  *)
(* ts is the first 12-digit group in it.  '' is the empty sequence.        *)
(* datetime.now().isoformat() (fetched_at, last_updated) is the ordinal of *)
(* the call that took it (stamp): two calls never share it.                *)
(***************************************************************************)
EXTENDS Integers, Sequences, FiniteSets, TLC

\* ---------------------------------------------------------------- bounds
MaxFile == 2          \* file identifiers 1..MaxFile
MaxOps == 2           \* writer calls (sync runs, store_to_mongodb calls) per behaviour
MaxNow == 2           \* the clock runs 1..MaxNow

\* ------------------------------------------------------ program constants
NEM_REGIONS == <<"VIC1", "NSW1">>   \* the first two of the five regions, in the list's order
HistTolerance == 1     \* time_diff > 5 (minutes) = 1 interval
HoursAhead24 == 288    \* hours_ahead=24, in intervals
MaxEntriesDispatch == 24
MaxEntriesOther == 10
NoneVal == 0           \* Python None of an optional price
Absent == 0 - 1        \* the key is not in the document

RegionSet == {NEM_REGIONS[i] : i \in 1..Len(NEM_REGIONS)}
FileIds == 1..MaxFile
FcSpan == 1            \* a forecast file F holds the intervals F..F+FcSpan
Times == 1..(MaxFile + FcSpan)
Keys == RegionSet \X Times

Max(S) == CHOOSE x \in S : \A y \in S : y <= x

\* ------------------------------------------------------------ file names
DispatchName(F) == << [fam |-> "PUBLIC_DISPATCH", ts |-> F] >>
MixedName(F) == << [fam |-> "PUBLIC_DISPATCH_P5MIN", ts |-> F] >>
P5Name(F) == << [fam |-> "PUBLIC_P5MIN", ts |-> F] >>
PdName(F) == << [fam |-> "PUBLIC_PREDISPATCH", ts |-> F] >>
EmptyName == << >>

\* 'PUBLIC_DISPATCH' in part.upper()
PartHasDispatch(p) == p.fam \in {"PUBLIC_DISPATCH", "PUBLIC_DISPATCH_P5MIN"}
\* 'PUBLIC_PREDISPATCH' in s or 'PUBLIC_P5MIN' in s
PartHasPublicForecast(p) == p.fam \in {"PUBLIC_P5MIN", "PUBLIC_PREDISPATCH"}
\* ... or 'P5MIN' in s or 'PREDISPATCH' in s
PartHasForecast(p) == p.fam \in {"PUBLIC_P5MIN", "PUBLIC_PREDISPATCH", "PUBLIC_DISPATCH_P5MIN"}

HasDispatch(name) == \E i \in 1..Len(name) : PartHasDispatch(name[i])
HasPublicForecast(name) == \E i \in 1..Len(name) : PartHasPublicForecast(name[i])
\* the gate testing the PUBLIC_-prefixed family names only
HasForecast_PublicOnly(name) == \E i \in 1..Len(name) : PartHasPublicForecast(name[i])
HasForecast(name) == \E i \in 1..Len(name) : PartHasForecast(name[i])
HasComma(name) == Len(name) > 1

\* [f for f in files if 'PUBLIC_DISPATCH' in f.upper()], joined again
dispatch_files(name) == SelectSeq(name, PartHasDispatch)

\* re.search(r'(\d{12})', filename): the first 12-digit group, 0 when none
parse_timestamp_from_filename(name) ==
  IF \E i \in 1..Len(name) : name[i].ts # 0
  THEN name[CHOOSE i \in 1..Len(name) : name[i].ts # 0 /\ \A j \in 1..(i-1) : name[j].ts = 0].ts
  ELSE 0

\* ------------------------------------------------------------- documents
MissingField == [state |-> "missing", price |-> 0, source_file |-> EmptyName,
                 file_timestamp |-> 0, fetched_at |-> 0]
NullField == [state |-> "null", price |-> 0, source_file |-> EmptyName,
              file_timestamp |-> 0, fetched_at |-> 0]
SetField(p, sf, fts, fa) == [state |-> "set", price |-> p, source_file |-> sf,
                             file_timestamp |-> fts, fetched_at |-> fa]

NoDoc == [exists |-> FALSE, historical_price |-> MissingField,
          dispatch_5min |-> MissingField, dispatch_30min |-> MissingField,
          Export_Price |-> Absent, Forecast_Price |-> Absent, last_updated |-> 0]

SourceFields == {"historical_price", "dispatch_5min", "dispatch_30min"}

\* doc.get(f, {}).get('price') if doc.get(f) else None
PriceOf(fld) == IF fld.state = "set" THEN fld.price ELSE NoneVal

calculate_export_price(historical, p5min, predispatch) ==
  IF historical # NoneVal THEN historical
  ELSE IF p5min # NoneVal THEN p5min
  ELSE IF predispatch # NoneVal THEN predispatch
  ELSE NoneVal

\* the 30-minute forecast preferred to the 5-minute one
calculate_forecast_price_PredispatchFirst(p5min, predispatch) ==
  IF predispatch # NoneVal THEN predispatch
  ELSE IF p5min # NoneVal THEN p5min
  ELSE NoneVal

calculate_forecast_price(p5min, predispatch) ==
  IF p5min # NoneVal THEN p5min
  ELSE IF predispatch # NoneVal THEN predispatch
  ELSE NoneVal

\* ----------------------------------------------- per-field merge of a key
NotOffered == [present |-> FALSE, price |-> 0, source_file |-> EmptyName,
               file_timestamp |-> 0, fetched_at |-> 0]
Offer(p, sf, fts, fa) == [present |-> TRUE, price |-> p, source_file |-> sf,
                          file_timestamp |-> fts, fetched_at |-> fa]

\* existing_doc and mongo_field in existing_doc
InExisting(existing_doc, mongo_field) ==
  existing_doc.exists /\ existing_doc[mongo_field].state # "missing"

\* parse_timestamp_from_filename(existing.get('source_file','')) or existing.get('file_timestamp','')
existing_file_ts(fld) ==
  IF parse_timestamp_from_filename(fld.source_file) # 0
  THEN parse_timestamp_from_filename(fld.source_file)
  ELSE fld.file_timestamp

\* should_update_type: only an offer older than the stored file is held back
should_update_type(existing_doc, mongo_field, off) ==
  ~ ( /\ InExisting(existing_doc, mongo_field)
      /\ existing_doc[mongo_field].state = "set"
      /\ existing_file_ts(existing_doc[mongo_field]) # 0
      /\ off.file_timestamp # 0
      /\ off.file_timestamp < existing_file_ts(existing_doc[mongo_field]) )

\* the source_file_value after the second provenance gate; ok = FALSE is None
source_file_value(mongo_field, sf) ==
  IF mongo_field = "historical_price" /\ sf # EmptyName
  THEN IF HasForecast(sf)
       THEN IF HasComma(sf)
            THEN IF dispatch_files(sf) # << >>
                 THEN [ok |-> TRUE, name |-> dispatch_files(sf)]
                 ELSE [ok |-> FALSE, name |-> EmptyName]
            ELSE [ok |-> FALSE, name |-> EmptyName]
       ELSE IF ~HasDispatch(sf)
            THEN [ok |-> FALSE, name |-> EmptyName]
            ELSE [ok |-> TRUE, name |-> sf]
  ELSE [ok |-> TRUE, name |-> sf]

FieldResult(e, v, s) == [err |-> e, val |-> v, seen |-> s]

\* the existing historical_price kept, its source_file cleaned in place
\* (lines 595-613 and 617-635); a null field raises on .get
KeepCleanedInPlace(fld) ==
  IF fld.state = "null" THEN FieldResult(TRUE, NullField, fld)
  ELSE IF fld.source_file # EmptyName
  THEN IF HasComma(fld.source_file)
       THEN IF dispatch_files(fld.source_file) # << >>
            THEN LET cleaned == [fld EXCEPT !.source_file = dispatch_files(fld.source_file)]
                 IN FieldResult(FALSE, cleaned, cleaned)
            ELSE FieldResult(FALSE, NullField, fld)
       ELSE IF HasPublicForecast(fld.source_file)
            THEN FieldResult(FALSE, NullField, fld)
            ELSE FieldResult(FALSE, fld, fld)
  ELSE FieldResult(FALSE, fld, fld)

\* a field nothing is offered for reset to None, as for a new document
KeepNotOffered_Reset(mongo_field, fld) == FieldResult(FALSE, NullField, fld)

\* the existing field kept when nothing is offered (lines 636-664)
KeepNotOffered(mongo_field, fld) ==
  IF mongo_field = "historical_price"
  THEN IF fld.state = "null" THEN FieldResult(TRUE, NullField, fld)
       ELSE IF fld.source_file # EmptyName
       THEN IF HasComma(fld.source_file)
            THEN IF dispatch_files(fld.source_file) # << >>
                 THEN FieldResult(FALSE, [fld EXCEPT !.source_file = dispatch_files(fld.source_file)], fld)
                 ELSE FieldResult(FALSE, NullField, fld)
            ELSE IF HasPublicForecast(fld.source_file)
                 THEN FieldResult(FALSE, NullField, fld)
                 ELSE FieldResult(FALSE, fld, fld)
       ELSE FieldResult(FALSE, fld, fld)
  ELSE FieldResult(FALSE, fld, fld)

\* one pass of the loop over data_type_map for one field (lines 541-667):
\* val is doc_updates[mongo_field], seen is existing_doc[mongo_field] as the
\* change test reads it, err tells that the pass raised (None has no .get)
FieldUpdate(mongo_field, off, existing_doc) ==
  LET fld == existing_doc[mongo_field]
      has == InExisting(existing_doc, mongo_field)
  IN IF off.present
     THEN IF should_update_type(existing_doc, mongo_field, off)
          THEN LET sfv == source_file_value(mongo_field, off.source_file)
               IN IF mongo_field # "historical_price" \/ sfv.ok
                  THEN FieldResult(FALSE,
                         SetField(off.price, sfv.name, off.file_timestamp, off.fetched_at), fld)
                  ELSE IF has
                       THEN KeepCleanedInPlace(fld)
                       ELSE FieldResult(FALSE, NullField, fld)
          ELSE IF has
               THEN IF mongo_field = "historical_price"
                    THEN KeepCleanedInPlace(fld)
                    ELSE FieldResult(FALSE, fld, fld)
               ELSE FieldResult(FALSE, NullField, fld)
     ELSE IF has
          THEN KeepNotOffered(mongo_field, fld)
          ELSE FieldResult(FALSE, NullField, fld)

\* ------------------------------------------------------ merge of one key
PriceData(h, a, b) == [historical |-> h, p5min |-> a, predispatch |-> b]
NoPriceData == PriceData(NotOffered, NotOffered, NotOffered)
\* ts in price_map
InPriceMap(pd) == pd.historical.present \/ pd.p5min.present \/ pd.predispatch.present

\* the body of the loop over price_map.items() up to the write (lines 510-699):
\* outcome "error" (the pass raised), "skipped" (no change found) or "write"
\* with doc the document $set by update_one
MergeKey(existing_doc, pd, stamp_now) ==
  LET h == FieldUpdate("historical_price", pd.historical, existing_doc)
      a == FieldUpdate("dispatch_5min", pd.p5min, existing_doc)
      b == FieldUpdate("dispatch_30min", pd.predispatch, existing_doc)
      final_export_price == calculate_export_price(PriceOf(h.val), PriceOf(a.val), PriceOf(b.val))
      final_forecast_price == calculate_forecast_price(PriceOf(a.val), PriceOf(b.val))
      needs_forecast_backfill == existing_doc.Forecast_Price \in {Absent, NoneVal}
      has_changes ==
        \/ needs_forecast_backfill
        \/ existing_doc.historical_price.state = "missing" \/ h.seen # h.val
        \/ existing_doc.dispatch_5min.state = "missing" \/ a.seen # a.val
        \/ existing_doc.dispatch_30min.state = "missing" \/ b.seen # b.val
        \/ existing_doc.Export_Price # final_export_price
        \/ existing_doc.Forecast_Price # final_forecast_price
      doc_updates == [exists |-> TRUE, historical_price |-> h.val,
                      dispatch_5min |-> a.val, dispatch_30min |-> b.val,
                      Export_Price |-> final_export_price,
                      Forecast_Price |-> final_forecast_price,
                      last_updated |-> stamp_now]
  IN IF h.err \/ a.err \/ b.err
     THEN [outcome |-> "error", doc |-> existing_doc]
     ELSE IF existing_doc.exists /\ ~has_changes
     THEN [outcome |-> "skipped", doc |-> existing_doc]
     ELSE [outcome |-> "write", doc |-> doc_updates]

\* ------------------------------------------------------- upstream files
\* the RRP of the row for interval t in file F of a report family
\* (k = 1 dispatch, 2 P5MIN, 3 PREDISPATCH): one file, one content
Price(k, F, t) == 100 * k + 10 * F + t

\* the intervals a forecast file F has rows for
ForecastRows(F) == {t \in Times : F <= t /\ t <= F + FcSpan}

\* the time filter of parse_region_csv (hours_back = 0)
TimeFilter(rows, hours_ahead, now_local) ==
  IF hours_ahead > 0
  THEN {t \in rows : ~(t <= now_local \/ t > now_local + hours_ahead)}
  ELSE rows

\* ----------------------------------------------------------- report cache
NoEntry == [present |-> FALSE, region |-> "", fetched_at |-> 0, times |-> {}]
Entry(r, fa, ts) == [present |-> TRUE, region |-> r, fetched_at |-> fa, times |-> ts]
EmptyClassCache == [F \in FileIds |-> NoEntry]
CachedKeys(cc) == {F \in DOMAIN cc : cc[F].present}
\* max(cache[data_type].keys()) or None (0)
current_timestamp(cc) == IF CachedKeys(cc) = {} THEN 0 ELSE Max(CachedKeys(cc))

\* sorted(keys, reverse=True)[:max_entries]
\* a mutant: the trim keeps the oldest entries
NewestKeys_Oldest(ks, max_entries) == {k \in ks : Cardinality({j \in ks : j < k}) < max_entries}
NewestKeys(ks, max_entries) == {k \in ks : Cardinality({j \in ks : j > k}) < max_entries}
\* a mutant: no write is refused
Rejected_Never(cc, timestamp_key) == FALSE
\* timestamp_key < latest_cached_key: the write returns before it stores
Rejected(cc, timestamp_key) == CachedKeys(cc) # {} /\ timestamp_key < Max(CachedKeys(cc))

save_to_cache(cc, data_type, timestamp_key, data) ==
  IF Rejected(cc, timestamp_key)
  THEN cc
  ELSE LET stored == [cc EXCEPT ![timestamp_key] = data]
           max_entries == IF data_type = "dispatch" THEN MaxEntriesDispatch ELSE MaxEntriesOther
       IN IF Cardinality(CachedKeys(stored)) > max_entries
          THEN [F \in DOMAIN cc |-> IF F \in NewestKeys(CachedKeys(stored), max_entries)
                                    THEN stored[F] ELSE NoEntry]
          ELSE stored

\* ------------------------------------------------------- report locator
\* smart_fetch_with_retry against a listing whose newest matching file is
\* latest (0: the listing cannot be read or has no match): the first attempt
\* with a result newer than the baseline ends the loop; no such attempt, None
smart_fetch_with_retry(latest, current_cached_timestamp) ==
  IF latest = 0 THEN 0
  ELSE IF current_cached_timestamp = 0 \/ latest > current_cached_timestamp THEN latest
  ELSE 0

\* fetch_p5min_prices / fetch_predispatch_prices: data.ok = FALSE is None
NoData == [ok |-> FALSE, file |-> 0, fetched_at |-> 0, times |-> {}]
\* a mutant: the cached entry of the listed file is a hit for any region
FetchForecast_AnyRegion(cc, data_type, latest, region, hours_ahead, force_refresh, now_local, stamp_now) ==
  LET cur == current_timestamp(cc)
      date_str == smart_fetch_with_retry(latest, IF force_refresh THEN cur ELSE 0)
      prices == TimeFilter(ForecastRows(date_str), hours_ahead, now_local)
  IN IF date_str = 0 THEN [data |-> NoData, cache |-> cc]
     ELSE IF ~force_refresh /\ date_str = cur /\ cc[date_str].present
     THEN [data |-> [ok |-> TRUE, file |-> date_str, fetched_at |-> cc[date_str].fetched_at,
                     times |-> cc[date_str].times],
           cache |-> cc]
     ELSE IF prices = {} THEN [data |-> NoData, cache |-> cc]
     ELSE [data |-> [ok |-> TRUE, file |-> date_str, fetched_at |-> stamp_now, times |-> prices],
           cache |-> save_to_cache(cc, data_type, date_str, Entry(region, stamp_now, prices))]
FetchForecast(cc, data_type, latest, region, hours_ahead, force_refresh, now_local, stamp_now) ==
  LET cur == current_timestamp(cc)
      date_str == smart_fetch_with_retry(latest, IF force_refresh THEN cur ELSE 0)
      prices == TimeFilter(ForecastRows(date_str), hours_ahead, now_local)
  IN IF date_str = 0 THEN [data |-> NoData, cache |-> cc]
     ELSE IF ~force_refresh /\ date_str = cur /\ cc[date_str].present /\ cc[date_str].region = region
     THEN [data |-> [ok |-> TRUE, file |-> date_str, fetched_at |-> cc[date_str].fetched_at,
                     times |-> cc[date_str].times],
           cache |-> cc]
     ELSE IF prices = {} THEN [data |-> NoData, cache |-> cc]
     ELSE [data |-> [ok |-> TRUE, file |-> date_str, fetched_at |-> stamp_now, times |-> prices],
           cache |-> save_to_cache(cc, data_type, date_str, Entry(region, stamp_now, prices))]

\* ------------------------------------------------------------------ state
VARIABLES store,           \* price_data: Keys -> document (NoDoc: none)
          cache,           \* nem_price_cache.json: data_type -> file id -> entry
          dispatch_cache,  \* sync_price_data_to_mongodb._dispatch_cache
          now,             \* datetime.now(AEST), in intervals
          stamp,           \* number of writer calls made so far
          report,          \* the counts of the last sync run
          op,              \* the last call and its arguments
          last,            \* history: upstream, arguments and result of the last sync run
          runs,            \* overlapping runs: each one's position in its per-key loop
          parse,           \* a call of a report parser: its file and its place in it
          ucache,          \* the unified cache file under direct save_to_cache calls
          listing,         \* a call of get_latest_file_url: the links and the result
          retry,           \* a call of smart_fetch_with_retry: attempts made, result
          lookup           \* a call of get_price_at_timestamp: the records, the result

vars == <<store, cache, dispatch_cache, now, stamp, report, op, last, runs,
          parse, ucache, listing, retry, lookup>>
\* the variables of the ingestion job, and those of the single functions
jobvars == <<store, cache, dispatch_cache, now, stamp, report, op, last, runs>>
fnvars == <<parse, ucache, listing, retry, lookup>>

NoDispatchCache == [valid |-> FALSE, source_file |-> EmptyName, ts |-> 0, fetched_at |-> 0]
NoReport == [inserted |-> 0, updated |-> 0, skipped |-> 0, key_errors |-> 0,
             keys |-> 0, fetch_errors |-> 0]
NoOp == [name |-> "init", force |-> FALSE, region |-> "", ts |-> 0,
         source_file |-> EmptyName, accepted |-> FALSE]
EmptyStore == [k \in Keys |-> NoDoc]
NoUp == [dispatch |-> [ts |-> 0, fam |-> "PUBLIC_DISPATCH"], p5min |-> 0, predispatch |-> 0]
NoOffers == [k \in Keys |-> NoPriceData]
\* history: how the loop over the price map ended for each key
\* ("none": the key was not reached)
NoOutcomes == [k \in Keys |-> "none"]
NoLast == [valid |-> FALSE, up |-> NoUp, force |-> FALSE, before |-> EmptyStore,
           store |-> EmptyStore, now |-> 0, offered |-> NoOffers,
           repeat |-> FALSE, prev_now |-> 0, outcomes |-> NoOutcomes]

\* the two runs of the job that may overlap (section 5: a manual run during
\* a scheduled one), each a process of its own
Runs == {"scheduled", "manual"}
IdleRun == [pc |-> "idle", upst |-> NoUp, force_refresh |-> FALSE, stamp |-> 0,
            dc |-> NoDispatchCache, i |-> 0, price_map |-> [t \in Times |-> NoPriceData],
            queue |-> << >>, existing_doc |-> NoDoc]

\* ---------------------------------------------- sync_price_data_to_mongodb
\* lines 256-306: the first region fetches and parses the newest dispatch
\* report; a failure leaves _dispatch_cache as it was
DispatchFetch(dc, updisp, stamp_now) ==
  IF updisp.ts = 0
  THEN [cache |-> dc, errors |-> 1]
  ELSE [cache |-> [valid |-> TRUE,
                   source_file |-> << [fam |-> updisp.fam, ts |-> updisp.ts] >>,
                   ts |-> updisp.ts, fetched_at |-> stamp_now],
        errors |-> 0]

\* lines 309-329 and 371-463: what the historical source proposes for interval t
\* a mutant: the point is offered whether or not it lies before the current time
HistoricalOffer_AnyTime(dc, t, now_aest) ==
  IF ~dc.valid \/ t # dc.ts THEN NotOffered
  ELSE IF dc.source_file # EmptyName
          /\ (HasForecast(dc.source_file) \/ ~HasDispatch(dc.source_file))
  THEN NotOffered
  ELSE LET source_timestamp == parse_timestamp_from_filename(dc.source_file)
       IN IF source_timestamp # 0 /\ t - source_timestamp > HistTolerance THEN NotOffered
          ELSE Offer(Price(1, dc.ts, t), dc.source_file, source_timestamp, dc.fetched_at)
HistoricalOffer(dc, t, now_aest) ==
  IF ~dc.valid \/ t # dc.ts THEN NotOffered
  ELSE IF dc.source_file # EmptyName
          /\ (HasForecast(dc.source_file) \/ ~HasDispatch(dc.source_file))
  THEN NotOffered
  ELSE LET source_timestamp == parse_timestamp_from_filename(dc.source_file)
       IN IF source_timestamp # 0 /\ t - source_timestamp > HistTolerance THEN NotOffered
          ELSE IF ~(t < now_aest) THEN NotOffered
          ELSE Offer(Price(1, dc.ts, t), dc.source_file, source_timestamp, dc.fetched_at)

\* lines 466-505: what a forecast source proposes for interval t
ForecastOffer(k, data, name, t) ==
  IF data.ok /\ t \in data.times
  THEN Offer(Price(k, data.file, t), name, parse_timestamp_from_filename(name), data.fetched_at)
  ELSE NotOffered

\* a mutant: the first key that fails ends the loop of its region
Tally_Abort(acc, region, keys, res, price_map) ==
  LET reached == {t \in keys : \A e \in keys : res[e].outcome = "error" => t <= e}
  IN [acc EXCEPT
        !.offered = [k \in Keys |-> IF k[1] = region THEN price_map[k[2]] ELSE acc.offered[k]],
        !.outcomes = [k \in Keys |-> IF k[1] = region /\ k[2] \in reached
                                     THEN res[k[2]].outcome ELSE acc.outcomes[k]],
        !.store = [k \in Keys |-> IF k[1] = region /\ k[2] \in reached
                                  THEN res[k[2]].doc ELSE acc.store[k]],
        !.inserted = @ + Cardinality({t \in reached : res[t].outcome = "write"
                                                      /\ ~acc.store[<<region, t>>].exists}),
        !.updated = @ + Cardinality({t \in reached : res[t].outcome = "write"
                                                     /\ acc.store[<<region, t>>].exists}),
        !.skipped = @ + Cardinality({t \in reached : res[t].outcome = "skipped"}),
        !.key_errors = @ + Cardinality({t \in reached : res[t].outcome = "error"}),
        !.keys = @ + Cardinality(keys)]
\* a mutant: a key left as it is counts in none of the totals
Tally_SkipUncounted(acc, region, keys, res, price_map) ==
  [acc EXCEPT
     !.offered = [k \in Keys |-> IF k[1] = region THEN price_map[k[2]] ELSE acc.offered[k]],
     !.outcomes = [k \in Keys |-> IF k[1] = region /\ k[2] \in keys
                                  THEN res[k[2]].outcome ELSE acc.outcomes[k]],
     !.store = [k \in Keys |-> IF k[1] = region /\ k[2] \in keys
                               THEN res[k[2]].doc ELSE acc.store[k]],
     !.inserted = @ + Cardinality({t \in keys : res[t].outcome = "write"
                                                 /\ ~acc.store[<<region, t>>].exists}),
     !.updated = @ + Cardinality({t \in keys : res[t].outcome = "write"
                                                /\ acc.store[<<region, t>>].exists}),
     !.key_errors = @ + Cardinality({t \in keys : res[t].outcome = "error"}),
     !.keys = @ + Cardinality(keys)]
Tally(acc, region, keys, res, price_map) ==
  [acc EXCEPT
     !.offered = [k \in Keys |-> IF k[1] = region THEN price_map[k[2]] ELSE acc.offered[k]],
     !.outcomes = [k \in Keys |-> IF k[1] = region /\ k[2] \in keys
                                  THEN res[k[2]].outcome ELSE acc.outcomes[k]],
     !.store = [k \in Keys |-> IF k[1] = region /\ k[2] \in keys
                               THEN res[k[2]].doc ELSE acc.store[k]],
     !.inserted = @ + Cardinality({t \in keys : res[t].outcome = "write"
                                                 /\ ~acc.store[<<region, t>>].exists}),
     !.updated = @ + Cardinality({t \in keys : res[t].outcome = "write"
                                                /\ acc.store[<<region, t>>].exists}),
     !.skipped = @ + Cardinality({t \in keys : res[t].outcome = "skipped"}),
     !.key_errors = @ + Cardinality({t \in keys : res[t].outcome = "error"}),
     !.keys = @ + Cardinality(keys)]

\* lines 308-508: the fetches of one region and the price_map built from them
PriceMap(region, cc, dc, upst, force_refresh, now_aest, stamp_now) ==
  LET f5 == FetchForecast(cc.p5min, "p5min", upst.p5min, region, 0,
                          force_refresh, now_aest, stamp_now)
      f30 == FetchForecast(cc.predispatch, "predispatch", upst.predispatch, region,
                           HoursAhead24, force_refresh, now_aest, stamp_now)
  IN [price_map |-> [t \in Times |->
                       PriceData(HistoricalOffer(dc, t, now_aest),
                                 ForecastOffer(2, f5.data, P5Name(f5.data.file), t),
                                 ForecastOffer(3, f30.data, PdName(f30.data.file), t))],
      cache |-> [cc EXCEPT !.p5min = f5.cache, !.predispatch = f30.cache]]

\* one pass of the loop over NEM_REGIONS after the dispatch fetch (lines 308-717)
SyncRegion(region, acc, dc, upst, force_refresh, now_aest, stamp_now) ==
  LET pm == PriceMap(region, acc.cache, dc, upst, force_refresh, now_aest, stamp_now)
      keys == {t \in Times : InPriceMap(pm.price_map[t])}
      res == [t \in Times |-> MergeKey(acc.store[<<region, t>>], pm.price_map[t], stamp_now)]
  IN Tally([acc EXCEPT !.cache = pm.cache], region, keys, res, pm.price_map)

RECURSIVE SyncRegions(_, _, _, _, _, _, _)
SyncRegions(i, acc, dc, upst, force_refresh, now_aest, stamp_now) ==
  IF i > Len(NEM_REGIONS) THEN acc
  ELSE SyncRegions(i + 1,
                   SyncRegion(NEM_REGIONS[i], acc, dc, upst, force_refresh, now_aest, stamp_now),
                   dc, upst, force_refresh, now_aest, stamp_now)

Sync(force_refresh, upst) ==
  /\ stamp < MaxOps
  /\ LET s == stamp + 1
         df == DispatchFetch(dispatch_cache, upst.dispatch, s)
         r == SyncRegions(1, [cache |-> cache, store |-> store, inserted |-> 0,
                              updated |-> 0, skipped |-> 0, key_errors |-> 0, keys |-> 0,
                              offered |-> NoOffers, outcomes |-> NoOutcomes],
                          df.cache, upst, force_refresh, now, s)
     IN /\ stamp' = s
        /\ dispatch_cache' = df.cache
        /\ cache' = r.cache
        /\ store' = r.store
        /\ report' = [inserted |-> r.inserted, updated |-> r.updated, skipped |-> r.skipped,
                      key_errors |-> r.key_errors, keys |-> r.keys,
                      fetch_errors |-> df.errors]
        /\ op' = [NoOp EXCEPT !.name = "sync", !.force = force_refresh]
        /\ last' = [valid |-> TRUE, up |-> upst, force |-> force_refresh, before |-> store,
                    store |-> r.store, now |-> now, offered |-> r.offered,
                    repeat |-> (/\ last.valid /\ last.up = upst /\ last.force = force_refresh
                                /\ last.store = store),
                    prev_now |-> last.now, outcomes |-> r.outcomes]
  /\ UNCHANGED <<now, runs, fnvars>>

\* ------------------------------------------------------- store_to_mongodb
StoreRejected(source_file) ==
  source_file # EmptyName /\ (HasForecast(source_file) \/ ~HasDispatch(source_file))

\* the document after store_to_mongodb's $set (lines 333-379)
StoredDoc(existing_doc, price, source_file, stamp_now) ==
  LET existing_hist == existing_doc.historical_price
      cleaned == /\ existing_doc.exists /\ existing_hist.state = "set"
                 /\ existing_hist.source_file # EmptyName
                 /\ HasComma(existing_hist.source_file)
                 /\ dispatch_files(existing_hist.source_file) # << >>
      historical_price_data ==
        SetField(price,
                 IF cleaned THEN dispatch_files(existing_hist.source_file) ELSE source_file,
                 parse_timestamp_from_filename(source_file), stamp_now)
  IN [existing_doc EXCEPT !.exists = TRUE,
                          !.historical_price = historical_price_data,
                          !.last_updated = stamp_now]

StoreToMongodb(region, timestamp, source_file) ==
  /\ stamp < MaxOps
  /\ stamp' = stamp + 1
  /\ store' = IF StoreRejected(source_file) THEN store
              ELSE [store EXCEPT ![<<region, timestamp>>] =
                      StoredDoc(@, Price(1, parse_timestamp_from_filename(source_file), timestamp),
                                source_file, stamp + 1)]
  /\ op' = [NoOp EXCEPT !.name = "store", !.region = region, !.ts = timestamp,
                        !.source_file = source_file,
                        !.accepted = ~StoreRejected(source_file)]
  /\ UNCHANGED <<cache, dispatch_cache, now, report, last, runs, fnvars>>

\* ------------------------------------------------------------ environment
Tick ==
  /\ now < MaxNow
  /\ now' = now + 1
  /\ UNCHANGED <<store, cache, dispatch_cache, stamp, report, op, last, runs, fnvars>>

\* what the three directory listings show to one run: the newest matching
\* file of each (0: the listing cannot be read, or the archive cannot)
Listings == [dispatch : {[ts |-> 0, fam |-> "PUBLIC_DISPATCH"]}
                          \cup {[ts |-> F, fam |-> "PUBLIC_DISPATCH"] : F \in FileIds}
                          \cup {[ts |-> 1, fam |-> "PUBLIC_DISPATCH_P5MIN"]},
             p5min : 0..MaxFile,
             predispatch : 0..1]

StoreNames == {EmptyName} \cup {DispatchName(F) : F \in FileIds} \cup {P5Name(F) : F \in FileIds}

\* the job before its first run
InitJob ==
  /\ store = EmptyStore
  /\ cache = [p5min |-> EmptyClassCache, predispatch |-> EmptyClassCache]
  /\ dispatch_cache = NoDispatchCache
  /\ now = 1
  /\ stamp = 0
  /\ report = NoReport
  /\ op = NoOp
  /\ last = NoLast
  /\ runs = [p \in Runs |-> IdleRun]

\* no single function under call
NoParse == [fn |-> "", pc |-> "idle"]
NoListing == [pc |-> "idle"]
NoRetry == [pc |-> "idle"]
NoLookup == [pc |-> "idle"]
NoUCache == [pc |-> "idle"]

Init ==
  /\ InitJob
  /\ parse = NoParse
  /\ ucache = NoUCache
  /\ listing = NoListing
  /\ retry = NoRetry
  /\ lookup = NoLookup

Next ==
  \/ \E force_refresh \in BOOLEAN, upst \in Listings : Sync(force_refresh, upst)
  \/ \E region \in RegionSet, timestamp \in Times, source_file \in StoreNames :
       StoreToMongodb(region, timestamp, source_file)
  \/ Tick

Spec == Init /\ [][Next]_vars

\* ------------------------------------------------------ overlapping runs
\* The same job run by two processes at once.  Each run is the code of
\* sync_price_data_to_mongodb taken one database call at a time: the fetches
\* of a region, then for each key of its price_map a find_one and an
\* update_one, with the other run's steps in between.

RECURSIVE Ascending(_)
Ascending(S) == IF S = {} THEN << >>
                ELSE LET m == CHOOSE x \in S : \A y \in S : x <= y
                     IN << m >> \o Ascending(S \ {m})

\* price_map.items(): keys in the order they were inserted (historical,
\* then P5MIN, then PREDISPATCH points; each source in file order)
KeyOrder(price_map) ==
  LET hs == {t \in Times : price_map[t].historical.present}
      as == {t \in Times : price_map[t].p5min.present} \ hs
      bs == {t \in Times : price_map[t].predispatch.present} \ (hs \cup as)
  IN Ascending(hs) \o Ascending(as) \o Ascending(bs)

\* the listings the overlapping runs see
RaceListings == {u \in Listings : u.dispatch.fam = "PUBLIC_DISPATCH" /\ u.predispatch = 0}

\* the run moves to the next region, or ends after the last
NextRegion(run) ==
  IF run.i < Len(NEM_REGIONS)
  THEN [run EXCEPT !.pc = "fetch", !.i = @ + 1, !.queue = << >>, !.existing_doc = NoDoc]
  ELSE [run EXCEPT !.pc = "done", !.queue = << >>, !.existing_doc = NoDoc]

\* the call of sync_price_data_to_mongodb(force_refresh) by process p
RaceStart(p, force_refresh, upst) ==
  /\ runs[p].pc = "idle"
  /\ stamp < MaxOps
  /\ stamp' = stamp + 1
  /\ runs' = [runs EXCEPT ![p] = [IdleRun EXCEPT !.pc = "fetch", !.upst = upst,
                                                 !.force_refresh = force_refresh,
                                                 !.stamp = stamp + 1, !.i = 1]]
  /\ UNCHANGED <<store, cache, dispatch_cache, now, report, op, last, fnvars>>

\* lines 255-508 for the region the run is at: the dispatch fetch (first
\* region only), the forecast fetches with their cache writes, price_map
RaceFetch(p) ==
  LET run == runs[p]
      region == NEM_REGIONS[run.i]
      dc == IF run.i = 1 THEN DispatchFetch(run.dc, run.upst.dispatch, run.stamp).cache
            ELSE run.dc
      pm == PriceMap(region, cache, dc, run.upst, run.force_refresh, now, run.stamp)
      fetched == [run EXCEPT !.dc = dc, !.price_map = pm.price_map,
                             !.queue = KeyOrder(pm.price_map)]
  IN /\ run.pc = "fetch"
     /\ cache' = pm.cache
     /\ runs' = [runs EXCEPT ![p] = IF fetched.queue = << >> THEN NextRegion(fetched)
                                    ELSE [fetched EXCEPT !.pc = "find_one"]]
     /\ UNCHANGED <<store, dispatch_cache, now, stamp, report, op, last, fnvars>>

\* line 520: existing_doc = collection.find_one({region, timestamp})
RaceFindOne(p) ==
  LET run == runs[p]
  IN /\ run.pc = "find_one"
     /\ runs' = [runs EXCEPT ![p] = [run EXCEPT
                    !.pc = "update_one",
                    !.existing_doc = store[<<NEM_REGIONS[run.i], Head(run.queue)>>]]]
     /\ UNCHANGED <<store, cache, dispatch_cache, now, stamp, report, op, last, fnvars>>

\* lines 522-715 for the key read: the merge against the document read by
\* find_one, then update_one($set, upsert) unless skipped or raised
RaceUpdateOne(p) ==
  LET run == runs[p]
      key == <<NEM_REGIONS[run.i], Head(run.queue)>>
      res == MergeKey(run.existing_doc, run.price_map[key[2]], run.stamp)
      rest == [run EXCEPT !.queue = Tail(@), !.existing_doc = NoDoc]
  IN /\ run.pc = "update_one"
     /\ store' = IF res.outcome = "write" THEN [store EXCEPT ![key] = res.doc] ELSE store
     /\ runs' = [runs EXCEPT ![p] = IF rest.queue = << >> THEN NextRegion(rest)
                                    ELSE [rest EXCEPT !.pc = "find_one"]]
     /\ UNCHANGED <<cache, dispatch_cache, now, stamp, report, op, last, fnvars>>

NextRace ==
  \/ \E p \in Runs, force_refresh \in BOOLEAN, upst \in RaceListings :
       RaceStart(p, force_refresh, upst)
  \/ \E p \in Runs : RaceFetch(p)
  \/ \E p \in Runs : RaceFindOne(p)
  \/ \E p \in Runs : RaceUpdateOne(p)
  \/ Tick

SpecRace == Init /\ [][NextRace]_vars

\* ================================================================ claims
\* data_type_map, read from the MongoDB field to the source (lines 534-538)
OurType(mongo_field) ==
  IF mongo_field = "historical_price" THEN "historical"
  ELSE IF mongo_field = "dispatch_5min" THEN "p5min" ELSE "predispatch"

\* the step is a run of sync_price_data_to_mongodb / a call of store_to_mongodb
SyncStep == stamp' = stamp + 1 /\ op'.name = "sync"
StoreStep == stamp' = stamp + 1 /\ op'.name = "store"

\* what the run of this step proposed for field f of key k
Proposed(k, f) == last'.offered[k][OurType(f)]

\* the best price as section 3 of the design defines it
BestPrice(doc) ==
  IF doc.historical_price.state = "set" THEN doc.historical_price.price
  ELSE IF doc.dispatch_5min.state = "set" THEN doc.dispatch_5min.price
  ELSE IF doc.dispatch_30min.state = "set" THEN doc.dispatch_30min.price
  ELSE NoneVal
BestForecast(doc) ==
  IF doc.dispatch_5min.state = "set" THEN doc.dispatch_5min.price
  ELSE IF doc.dispatch_30min.state = "set" THEN doc.dispatch_30min.price
  ELSE NoneVal

\* field f of key k holds file timestamp T, the run proposes an older file
\* for it and nothing newer for the other source fields
C1_Case(k, f) ==
  /\ store[k][f].state = "set"
  /\ store[k][f].file_timestamp > 0
  /\ Proposed(k, f).present
  /\ Proposed(k, f).file_timestamp > 0
  /\ Proposed(k, f).file_timestamp < store[k][f].file_timestamp
  /\ \A g \in SourceFields \ {f} :
       \/ ~Proposed(k, g).present
       \/ /\ store[k][g].state = "set"
          /\ Proposed(k, g).file_timestamp <= store[k][g].file_timestamp

\* C1: in a sync run, a value proposed for a field from a file older than the
\* one stored in it (nothing newer proposed for the other fields) leaves the
\* field, Export_Price and Forecast_Price of the record unchanged.
C1_OlderOfferLeavesRecord ==
  [][SyncStep =>
       \A k \in Keys, f \in SourceFields :
         C1_Case(k, f) =>
           /\ store'[k][f] = store[k][f]
           /\ store'[k].Export_Price = store[k].Export_Price
           /\ store'[k].Forecast_Price = store[k].Forecast_Price]_vars

\* C1 restricted to records whose derived prices were right before the run:
\* the part of C1 that does not depend on store_to_mongodb's stale Export_Price
C1_OlderOfferLeavesConsistentRecord ==
  [][SyncStep =>
       \A k \in Keys, f \in SourceFields :
         (/\ C1_Case(k, f)
          /\ store[k].Export_Price = BestPrice(store[k])
          /\ store[k].Forecast_Price = BestForecast(store[k])) =>
           /\ store'[k][f] = store[k][f]
           /\ store'[k].Export_Price = store[k].Export_Price
           /\ store'[k].Forecast_Price = store[k].Forecast_Price]_vars

\* C2: in a sync run, for every existing record, a value proposed for a field
\* from a file newer than the one stored in it replaces the field's price and
\* file timestamp, and Export_Price / Forecast_Price are recomputed from the
\* new field set.
C2_NewerOfferReplaces ==
  [][SyncStep =>
       \A k \in Keys, f \in SourceFields :
         (/\ store[k].exists
          /\ store[k][f].state = "set"
          /\ store[k][f].file_timestamp > 0
          /\ Proposed(k, f).present
          /\ Proposed(k, f).file_timestamp > store[k][f].file_timestamp) =>
           /\ store'[k][f].state = "set"
           /\ store'[k][f].price = Proposed(k, f).price
           /\ store'[k][f].file_timestamp = Proposed(k, f).file_timestamp
           /\ store'[k].Export_Price = BestPrice(store'[k])
           /\ store'[k].Forecast_Price = BestForecast(store'[k])]_vars

\* C3: store_to_mongodb offered a dispatch file overwrites an existing
\* historical_price only if the file's timestamp is >= the one stored.
C3_StoreNeverRegresses ==
  [][(StoreStep /\ op'.source_file # EmptyName) =>
       \A k \in Keys :
         (store[k].historical_price.state = "set"
          /\ store'[k].historical_price # store[k].historical_price) =>
           store'[k].historical_price.file_timestamp
             >= store[k].historical_price.file_timestamp]_vars

\* C4: every non-null historical_price of the store is sourced from a
\* dispatch-family (PUBLIC_DISPATCH) file, never from a P5MIN or PREDISPATCH
\* file, also when the offered source file name is empty.
C4_HistoricalFromDispatchFile ==
  \A k \in Keys :
    store[k].historical_price.state = "set" =>
      /\ HasDispatch(store[k].historical_price.source_file)
      /\ ~HasForecast(store[k].historical_price.source_file)

\* the step attempts a historical write from a file of a forecast family or
\* from a file that is no recognized dispatch file
RejectedName(name) ==
  name # EmptyName /\ \E i \in 1..Len(name) : name[i].fam # "PUBLIC_DISPATCH"
C5_Attempt ==
  \/ SyncStep /\ last'.up.dispatch.ts # 0
       /\ RejectedName(<< [fam |-> last'.up.dispatch.fam, ts |-> last'.up.dispatch.ts] >>)
  \/ StoreStep /\ RejectedName(op'.source_file)

C6_ExportPriceIsBest ==
  \A k \in Keys :
    store[k].exists =>
      \/ store[k].Export_Price = BestPrice(store[k])
      \/ BestPrice(store[k]) = NoneVal /\ store[k].Export_Price = Absent

\* C7: in every record written by sync_price_data_to_mongodb (the records
\* that carry Forecast_Price) Forecast_Price is the 5-minute forecast if
\* present, else the 30-minute forecast, else null, whatever the historical
\* price is.
C7_ForecastPriceIsBest ==
  \A k \in Keys :
    store[k].Forecast_Price # Absent =>
      store[k].Forecast_Price = BestForecast(store[k])

\* C7 witness: a record with all three sources whose Forecast_Price is the
\* 5-minute price, and one with a historical price only and a null forecast
C7_Witness ==
  /\ op.name = "sync"
  /\ \E k \in Keys : /\ store[k].historical_price.state = "set"
                     /\ store[k].dispatch_5min.state = "set"
                     /\ store[k].dispatch_30min.state = "set"
                     /\ store[k].last_updated = stamp
                     /\ store[k].Forecast_Price = store[k].dispatch_5min.price
                     /\ store[k].Forecast_Price # store[k].historical_price.price
                     /\ store[k].Forecast_Price # store[k].dispatch_30min.price

\* the step is a second run in succession: same listings and arguments as
\* the run before, and no other writer in between
SecondRun == SyncStep /\ last'.repeat

\* C8: the second of two runs in succession on unchanged upstream data
\* changes no document and reports every key as skipped.
C8_SecondRunSkipsAll ==
  [][SecondRun =>
       /\ store' = store
       /\ report'.inserted = 0
       /\ report'.updated = 0
       /\ report'.key_errors = 0
       /\ report'.skipped = report'.keys]_vars

SameValues(d, e) ==
  /\ \A f \in SourceFields : /\ d[f].state = "set" <=> e[f].state = "set"
                             /\ d[f].price = e[f].price
                             /\ d[f].file_timestamp = e[f].file_timestamp
  /\ d.Export_Price = e.Export_Price
  /\ d.Forecast_Price = e.Forecast_Price

\* C10 as stated: after a second run on unchanged upstream data every
\* record's prices, file timestamps, Export_Price and Forecast_Price are
\* those after the first run.
C10_SecondRunConverges ==
  [][SecondRun => \A k \in Keys : SameValues(store'[k], store[k])]_vars

\* C10 amended: the same, provided no settlement interval ended between the
\* two runs (the clock filters admit the same points in both).
C10_SecondRunConvergesSameClock ==
  [][(SecondRun /\ last'.prev_now = last'.now) =>
       \A k \in Keys : SameValues(store'[k], store[k])]_vars

\* C10 witness: a second run at the same clock has rewritten a record that
\* holds a historical price and a forecast
C10_Witness ==
  /\ op.name = "sync"
  /\ last.repeat
  /\ last.prev_now = last.now
  /\ report.updated > 0
  /\ \E k \in Keys : /\ store[k].historical_price.state = "set"
                     /\ store[k].dispatch_5min.state = "set"
                     /\ store[k].last_updated = stamp
                     /\ last.before[k].last_updated < stamp
                     /\ SameValues(store[k], last.before[k])

\* C9: with two sync runs whose find_one / update_one steps interleave on
\* the same keys, no step leaves a source field with a file timestamp lower
\* than the one that was stored in it.
C9_RaceNeverRegresses ==
  [][\A k \in Keys, f \in SourceFields :
       (store[k][f].state = "set" /\ store'[k][f].state = "set") =>
         store'[k][f].file_timestamp >= store[k][f].file_timestamp]_vars

\* the same for runs that do not overlap: each sync run as one step
C9_SequentialNeverRegresses ==
  [][SyncStep =>
       \A k \in Keys, f \in SourceFields :
         store[k][f].state = "set" =>
           /\ store'[k][f].state = "set"
           /\ store'[k][f].file_timestamp >= store[k][f].file_timestamp]_vars

\* ============================================================ report parsers
\* parse_region_csv (fetch_prices.py) and parse_dispatch_csv
\* (fetch_dispatch_historical.py) read a report line by line.  Here an
\* instant is counted in seconds, a price in thousandths of a dollar, and a
\* line is what the parsers look at in it: the row type, the table name in
\* parts[1], the set of column names of a header row, and for a data row
\* whether it has a value for every column (enough), the region, the date
\* (and whether strptime accepts it) and the price (and whether float()
\* accepts it).

MaxLines == 4                      \* lines of a parsed file
SettlementTolerance == 60          \* seconds
AEST_FIXED == 600                  \* pytz.FixedOffset(600): UTC+10, in minutes
expected_settlement_date == 600    \* the settlement instant of the file's name
TableName == "DREGION"
RegionArg == "VIC1"                \* the region asked of parse_region_csv
AllColumns == {"REGIONID", "SETTLEMENTDATE", "RRP"}

HeaderRow(table, cols) ==
  [row_type |-> "I", table |-> table, cols |-> cols, enough |-> TRUE,
   region |-> "", dt_ok |-> FALSE, dt |-> 0, price_ok |-> FALSE, price |-> 0]
DataRow(table, enough, region, dt_ok, dt, price_ok, price) ==
  [row_type |-> "D", table |-> table, cols |-> {}, enough |-> enough,
   region |-> region, dt_ok |-> dt_ok, dt |-> dt, price_ok |-> price_ok,
   price |-> price]

\* the lines the files are made of
GoodHeader == HeaderRow(TableName, AllColumns)
HeaderNoRegion == HeaderRow(TableName, AllColumns \ {"REGIONID"})
HeaderNoPrice == HeaderRow(TableName, AllColumns \ {"RRP"})
RowOnTime == DataRow(TableName, TRUE, "VIC1", TRUE, expected_settlement_date, TRUE, 40000)
RowWithin == DataRow(TableName, TRUE, "VIC1", TRUE,
                     expected_settlement_date + SettlementTolerance, TRUE, 55234)
RowLate == DataRow(TableName, TRUE, "VIC1", TRUE,
                   expected_settlement_date + SettlementTolerance + 1, TRUE, 70000)
RowOtherRegion == DataRow(TableName, TRUE, "NSW1", TRUE, expected_settlement_date, TRUE, 30000)
RowBadDate == DataRow(TableName, TRUE, "VIC1", FALSE, 0, TRUE, 41000)
RowBadPrice == DataRow(TableName, TRUE, "VIC1", TRUE, expected_settlement_date, FALSE, 0)
RowShort == DataRow(TableName, FALSE, "", FALSE, 0, FALSE, 0)
RowOtherTable == DataRow("DISPATCHPRICE", TRUE, "VIC1", TRUE, expected_settlement_date, TRUE, 42000)
Lines == {GoodHeader, HeaderNoRegion, HeaderNoPrice, RowOnTime, RowWithin, RowLate,
          RowOtherRegion, RowBadDate, RowBadPrice, RowShort, RowOtherTable}
CsvFiles == UNION {[1..n -> Lines] : n \in 0..MaxLines}

\* a mutant: the datetime is localized by Australia/Sydney in daylight saving
isoformat_Sydney(secs) == [secs |-> secs, utcoffset |-> AEST_FIXED + 60]
\* dt_local.isoformat() of a datetime localized by AEST_FIXED: pytz.FixedOffset
\* takes neither the host's timezone nor the date into account
isoformat(secs) == [secs |-> secs, utcoffset |-> AEST_FIXED]
\* round(price, 2); no price of Lines is half way between two cents
Round2(p) == ((p + 5) \div 10) * 10
\* abs((dt_local - expected_settlement_date).total_seconds())
time_diff(dt, expected) == IF dt >= expected THEN dt - expected ELSE expected - dt
\* a mutant: the settlement check never fails a row
FailsSettlementCheck_Never(dt, expected) == FALSE
FailsSettlementCheck(dt, expected) == time_diff(dt, expected) > SettlementTolerance

\* a point of the output; line is the number of the line it was read from
\* (not in the program's output: it lets a property say which row a point is)
Point(n, region, secs, price) ==
  [line |-> n, region |-> region, timestamp |-> isoformat(secs), price |-> Round2(price)]

\* list.sort(key=timestamp): stable, ascending
RECURSIVE SortByTimestamp(_)
SortByTimestamp(ps) ==
  IF Len(ps) <= 1 THEN ps
  ELSE LET rest == SortByTimestamp(Tail(ps))
           p == Head(ps)
           before == SelectSeq(rest, LAMBDA q : q.timestamp.secs < p.timestamp.secs)
           after == SelectSeq(rest, LAMBDA q : q.timestamp.secs >= p.timestamp.secs)
       IN before \o <<p>> \o after

\* results[row_region] = point: a dict keeps one value per key, at the place
\* where the key was first inserted
DictSet(ps, p) ==
  IF \E j \in 1..Len(ps) : ps[j].region = p.region
  THEN [j \in 1..Len(ps) |-> IF ps[j].region = p.region THEN p ELSE ps[j]]
  ELSE Append(ps, p)

\* a call of a parser: fn, its arguments (csv, given: whether an expected
\* settlement instant is passed), the lines read so far (i), the columns of
\* the last header of the table (cols), the points collected (out)
ParseCall(fn, csv, given) ==
  [fn |-> fn, pc |-> "loop", csv |-> csv, given |-> given, i |-> 0,
   cols |-> {}, out |-> << >>]
Returned(s, out) == [s EXCEPT !.pc = "returned", !.out = out]

\* one turn of the loop of parse_region_csv(csv, region=RegionArg,
\* table_name=TableName, hours_ahead=0, hours_back=0, expected)
parse_region_csv_line(s) ==
  LET n == s.i + 1
      line == s.csv[n]
      skip == [s EXCEPT !.i = n]
  IN IF line.row_type = "I" /\ line.table = TableName
     THEN [skip EXCEPT !.cols = line.cols]
     ELSE IF ~(line.row_type = "D" /\ s.cols # {} /\ "REGIONID" \in s.cols) THEN skip
     ELSE IF line.table # TableName THEN skip
     ELSE IF ~(AllColumns \subseteq s.cols) THEN Returned(skip, << >>)   \* max() of None
     ELSE IF ~line.enough THEN skip
     ELSE IF line.region # RegionArg THEN skip
     ELSE IF ~line.dt_ok THEN skip
     ELSE IF s.given /\ FailsSettlementCheck(line.dt, expected_settlement_date) THEN skip
     ELSE IF ~line.price_ok THEN skip
     ELSE LET dt_local == IF s.given /\ time_diff(line.dt, expected_settlement_date) > 0
                          THEN expected_settlement_date ELSE line.dt
          IN [skip EXCEPT !.out = Append(@, Point(n, RegionArg, dt_local, line.price))]

\* one turn of the loop of parse_dispatch_csv(csv, expected, regions=NEM_REGIONS)
parse_dispatch_csv_line(s) ==
  LET n == s.i + 1
      line == s.csv[n]
      skip == [s EXCEPT !.i = n]
  IN IF line.row_type = "I" /\ line.table = TableName
     THEN IF AllColumns \subseteq line.cols
          THEN [skip EXCEPT !.cols = line.cols]
          ELSE Returned(skip, << >>)                      \* return {}
     ELSE IF ~(line.row_type = "D" /\ line.table = TableName /\ s.cols # {}) THEN skip
     ELSE IF ~line.enough THEN skip
     ELSE IF line.region \notin RegionSet THEN skip
     ELSE IF ~line.dt_ok THEN skip
     ELSE IF FailsSettlementCheck(line.dt, expected_settlement_date) THEN skip
     ELSE IF ~line.price_ok THEN skip
     ELSE [skip EXCEPT !.out = DictSet(@, Point(n, line.region, expected_settlement_date,
                                                line.price))]

ParseCalls ==
  {ParseCall("parse_region_csv", csv, given) : csv \in CsvFiles, given \in BOOLEAN}
    \cup {ParseCall("parse_dispatch_csv", csv, TRUE) : csv \in CsvFiles}

\* the loop reads the next line
ParseLine ==
  /\ parse.pc = "loop"
  /\ parse.i < Len(parse.csv)
  /\ parse' = IF parse.fn = "parse_region_csv" THEN parse_region_csv_line(parse)
              ELSE parse_dispatch_csv_line(parse)
  /\ UNCHANGED <<jobvars, ucache, listing, retry, lookup>>

\* the end of the file: parse_region_csv sorts its points and returns them,
\* parse_dispatch_csv returns its dict
ParseReturn ==
  /\ parse.pc = "loop"
  /\ parse.i = Len(parse.csv)
  /\ parse' = IF parse.fn = "parse_region_csv"
              THEN Returned(parse, SortByTimestamp(parse.out))
              ELSE Returned(parse, parse.out)
  /\ UNCHANGED <<jobvars, ucache, listing, retry, lookup>>

InitParse ==
  /\ InitJob
  /\ parse \in ParseCalls
  /\ ucache = NoUCache
  /\ listing = NoListing
  /\ retry = NoRetry
  /\ lookup = NoLookup
NextParse == ParseLine \/ ParseReturn
SpecParse == InitParse /\ [][NextParse]_vars

\* ---------------------------------------------------- claims on the parsers
OutLines == {parse.out[j].line : j \in 1..Len(parse.out)}
RowAt(n) == parse.csv[n]
\* a data row of the table for a region the call asks for
AskedRegions == IF parse.fn = "parse_region_csv" THEN {RegionArg} ELSE RegionSet
IsTableRow(n) == RowAt(n).row_type = "D" /\ RowAt(n).table = TableName
IsTableHeader(n) == RowAt(n).row_type = "I" /\ RowAt(n).table = TableName
\* every header of the table in the file names the three columns, and one
\* stands before line n
ReadableBefore(n) ==
  /\ \A h \in 1..Len(parse.csv) : IsTableHeader(h) => RowAt(h).cols = AllColumns
  /\ \E h \in 1..(n - 1) : IsTableHeader(h)
\* row n decodes: a value in every column, a date, a numeric price
Decodes(n) == RowAt(n).enough /\ RowAt(n).dt_ok /\ RowAt(n).price_ok
Within(n) ==
  /\ RowAt(n).dt - expected_settlement_date <= SettlementTolerance
  /\ expected_settlement_date - RowAt(n).dt <= SettlementTolerance
ValidRow(n) ==
  /\ IsTableRow(n) /\ ReadableBefore(n) /\ Decodes(n) /\ Within(n)
  /\ RowAt(n).region \in AskedRegions

\* C11: when an expected settlement instant is given, no DREGION row whose
\* decoded timestamp is more than 60 seconds away from it is in the output
\* of parse_region_csv or parse_dispatch_csv.
C11_LateRowsNeverParsed ==
  (parse.pc # "idle" /\ parse.given) =>
    \A n \in OutLines : RowAt(n).dt_ok /\ Within(n)

\* C11 witness: a file with a row 61 seconds late was parsed with an expected
\* instant, and the output holds another row of the file
C11_Witness ==
  /\ parse.pc = "returned" /\ parse.given
  /\ \E n \in 1..Len(parse.csv) : RowAt(n) = RowLate /\ ReadableBefore(n)
  /\ parse.out # << >>

\* the point that row n gave, if the output holds one
PointsOf(n) == {j \in 1..Len(parse.out) : parse.out[j].line = n}
FileInstant == [secs |-> expected_settlement_date, utcoffset |-> AEST_FIXED]
\* a price to the nearest cent
ToCents(p) == ((p + 5) \div 10) * 10
\* row n appears: the output holds a point of its region with its price, to the cent
Appears(n) ==
  \E j \in 1..Len(parse.out) : /\ parse.out[j].region = RowAt(n).region
                               /\ parse.out[j].price = ToCents(RowAt(n).price)

\* C12: a DREGION data row for a requested region, within 60 seconds of the
\* file's settlement time and with a numeric price, is in the output of
\* parse_dispatch_csv and of parse_region_csv (no clock filter) with exactly
\* the file's settlement timestamp and the row's price.
C12_ValidRowParsedExactly ==
  (parse.pc = "returned" /\ parse.given) =>
    \A n \in 1..Len(parse.csv) :
      ValidRow(n) =>
        \E j \in PointsOf(n) : /\ parse.out[j].region = RowAt(n).region
                               /\ parse.out[j].timestamp = FileInstant
                               /\ parse.out[j].price = RowAt(n).price

\* what does hold in both parsers: a valid row that no later valid row of the
\* same region follows is in the output with the file's timestamp and its
\* price rounded to the cent
LastOfRegion(n) ==
  \A k \in (n + 1)..Len(parse.csv) : ValidRow(k) => RowAt(k).region # RowAt(n).region
C12_LastValidRowParsedRounded ==
  (parse.pc = "returned" /\ parse.given) =>
    \A n \in 1..Len(parse.csv) :
      (ValidRow(n) /\ LastOfRegion(n)) =>
        \E j \in PointsOf(n) : /\ parse.out[j].region = RowAt(n).region
                               /\ parse.out[j].timestamp = FileInstant
                               /\ parse.out[j].price = ToCents(RowAt(n).price)

\* and parse_region_csv alone keeps every valid row, rounded
C12_RegionCsvKeepsEveryValidRow ==
  (parse.pc = "returned" /\ parse.given /\ parse.fn = "parse_region_csv") =>
    \A n \in 1..Len(parse.csv) :
      ValidRow(n) =>
        \E j \in PointsOf(n) : /\ parse.out[j].timestamp = FileInstant
                               /\ parse.out[j].price = ToCents(RowAt(n).price)

\* a row that C13 calls a row-level decode error: a row of the table, after
\* a readable header, that is not valid for one of the five reasons
BadRow(n) ==
  /\ IsTableRow(n) /\ ReadableBefore(n)
  /\ \/ ~RowAt(n).enough
     \/ ~RowAt(n).dt_ok
     \/ ~RowAt(n).price_ok
     \/ RowAt(n).region \notin AskedRegions
     \/ ~Within(n)

\* C13: a row-level decode error skips only that row: every other valid row
\* of the target table, before and after it in the file, is in the output.
C13_BadRowSkipsOnlyItself ==
  (parse.pc = "returned" /\ parse.given) =>
    \A b \in 1..Len(parse.csv) :
      BadRow(b) =>
        \A n \in 1..Len(parse.csv) : ValidRow(n) => Appears(n)

\* what does hold: the bad row is skipped and the parse goes on, so that the
\* last valid row of each region, before or after the bad row, is in the
\* output (parse_dispatch_csv), and every valid row is (parse_region_csv)
C13_BadRowDoesNotAbort ==
  (parse.pc = "returned" /\ parse.given) =>
    \A b \in 1..Len(parse.csv) :
      BadRow(b) =>
        /\ PointsOf(b) = {}
        /\ \A n \in 1..Len(parse.csv) :
             (ValidRow(n) /\ (LastOfRegion(n) \/ parse.fn = "parse_region_csv"))
               => Appears(n)

\* the payload is structurally unreadable for the target table: no header
\* row of the table, or a header row of the table that lacks a column
Unreadable ==
  \/ \A h \in 1..Len(parse.csv) : ~IsTableHeader(h)
  \/ \E h \in 1..Len(parse.csv) : IsTableHeader(h) /\ RowAt(h).cols # AllColumns

\* C14: a structurally unreadable payload gives no points at all, not even
\* those decoded from earlier rows of the file.
C14_UnreadableGivesNoPoints ==
  (parse.pc = "returned" /\ Unreadable) => parse.out = << >>

\* parse_dispatch_csv alone does so
C14_DispatchCsvUnreadableGivesNoPoints ==
  (parse.pc = "returned" /\ Unreadable /\ parse.fn = "parse_dispatch_csv")
    => parse.out = << >>

\* ============================================================= report cache
\* The unified cache file under direct calls of save_to_cache: three classes
\* and metadata.last_updated (the ordinal of the save that wrote the file).
MaxSaves == 2                       \* calls of save_to_cache in a behaviour
MaxKey == MaxEntriesDispatch + 3    \* file identifiers of the cache 1..MaxKey
DataTypes == {"dispatch", "p5min", "predispatch"}
CacheKeySet == 1..MaxKey
\* a class that holds the files lo..hi, each stored by a call of its own
FilledClass(lo, hi) ==
  [F \in CacheKeySet |-> IF lo <= F /\ F <= hi THEN Entry("VIC1", 0, {}) ELSE NoEntry]
\* classes that are empty, one short of full, and full
FillsOf(data_type) ==
  LET max_entries == IF data_type = "dispatch" THEN MaxEntriesDispatch ELSE MaxEntriesOther
  IN {FilledClass(2, 1), FilledClass(2, max_entries), FilledClass(2, max_entries + 1)}
NoSave == [data_type |-> "", timestamp_key |-> 0, cache |-> << >>, last_updated |-> 0]

\* save_to_cache(data_type, timestamp_key, data) on the file: load, refuse or
\* store and trim, save_unified_cache
SaveToCache ==
  /\ ucache.pc = "run"
  /\ ucache.calls < MaxSaves
  /\ \E data_type \in DataTypes, timestamp_key \in CacheKeySet :
       LET call == ucache.calls + 1
           data == Entry("VIC1", call, {})
           refused == Rejected(ucache.cache[data_type], timestamp_key)
       IN ucache' = [ucache EXCEPT
            !.calls = call,
            !.prev = [data_type |-> data_type, timestamp_key |-> timestamp_key,
                      cache |-> ucache.cache, last_updated |-> ucache.last_updated],
            !.cache[data_type] = save_to_cache(@, data_type, timestamp_key, data),
            !.last_updated = IF refused THEN @ ELSE call]
  /\ UNCHANGED <<jobvars, parse, listing, retry, lookup>>

InitCache ==
  /\ InitJob
  /\ parse = NoParse
  /\ listing = NoListing
  /\ retry = NoRetry
  /\ lookup = NoLookup
  /\ \E d \in FillsOf("dispatch"), p \in FillsOf("p5min") :
       ucache = [pc |-> "run", calls |-> 0, prev |-> NoSave, last_updated |-> 0,
                 cache |-> [dispatch |-> d, p5min |-> p,
                            predispatch |-> FilledClass(2, 1)]]
NextCache == SaveToCache
SpecCache == InitCache /\ [][NextCache]_vars

\* ---------------------------------------------------- claims on the cache
KeysIn(c, data_type) == {F \in CacheKeySet : c[data_type][F].present}
PrevKeys == KeysIn(ucache.prev.cache, ucache.prev.data_type)
\* the class held a file newer than the one offered
HeldNewer == \E F \in PrevKeys : F > ucache.prev.timestamp_key

\* C15: a save_to_cache for a class that holds a newer file_id than the one
\* offered leaves the whole cache unchanged; a write with a file_id equal to
\* or newer than the newest cached one is stored.
C15_StaleWriteRejected ==
  (ucache.pc = "run" /\ ucache.calls > 0) =>
    IF HeldNewer
    THEN /\ ucache.cache = ucache.prev.cache
         /\ ucache.last_updated = ucache.prev.last_updated
    ELSE LET e == ucache.cache[ucache.prev.data_type][ucache.prev.timestamp_key]
         IN e.present /\ e.fetched_at = ucache.calls

\* C15 witness: the second call was refused although another class and the
\* class itself hold entries, after a first call that stored an equal file_id
C15_Witness ==
  /\ ucache.pc = "run" /\ ucache.calls = 2
  /\ HeldNewer
  /\ \E F \in PrevKeys : ucache.prev.cache[ucache.prev.data_type][F].fetched_at = 1
  /\ \E t \in DataTypes \ {ucache.prev.data_type} : KeysIn(ucache.cache, t) # {}

MaxEntriesOf(data_type) == IF data_type = "dispatch" THEN 24 ELSE 10
Oldest(S, n) == {x \in S : Cardinality({y \in S : y < x}) < n}

\* C16: every class holds at most K entries (24 dispatch, 10 the others);
\* a stored write that exceeds K removes exactly the entries with the
\* smallest file_ids, and the entries of the other classes are not touched.
C16_BoundedRetention ==
  (ucache.pc = "run") =>
    /\ \A t \in DataTypes : Cardinality(KeysIn(ucache.cache, t)) <= MaxEntriesOf(t)
    /\ (ucache.calls > 0 /\ ~HeldNewer) =>
         LET t == ucache.prev.data_type
             all == PrevKeys \cup {ucache.prev.timestamp_key}
             excess == IF Cardinality(all) > MaxEntriesOf(t)
                       THEN Cardinality(all) - MaxEntriesOf(t) ELSE 0
         IN /\ KeysIn(ucache.cache, t) = all \ Oldest(all, excess)
            /\ \A F \in KeysIn(ucache.cache, t) \ {ucache.prev.timestamp_key} :
                 ucache.cache[t][F] = ucache.prev.cache[t][F]
            /\ \A u \in DataTypes \ {t} : ucache.cache[u] = ucache.prev.cache[u]

\* C16 witness: a stored write to a full class has evicted its oldest entry
\* while another class holds entries
C16_Witness ==
  /\ ucache.pc = "run" /\ ucache.calls > 0 /\ ~HeldNewer
  /\ Cardinality(PrevKeys) = MaxEntriesOf(ucache.prev.data_type)
  /\ \E F \in PrevKeys : ~ucache.cache[ucache.prev.data_type][F].present
  /\ \E t \in DataTypes \ {ucache.prev.data_type} : KeysIn(ucache.cache, t) # {}

\* ------------------------------------------------- claims on force refresh
\* a sync run with the force-refresh flag whose P5MIN listing names file F
ForcedRun(F) == SyncStep /\ op'.force /\ last'.up.p5min = F
StoredNow(F) == cache'.p5min[F].present /\ cache'.p5min[F].fetched_at = stamp'

\* C17: a fetch run with the force-refresh flag stores its parsed report in
\* the cache even when the cache holds a newer file_id for that class.
C17_ForceRefreshStores ==
  [][\A F \in FileIds :
       (ForcedRun(F) /\ \E G \in FileIds : G > F /\ cache.p5min[G].present)
         => StoredNow(F)]_vars

\* what the flag does: a forced run stores the listed file when it is newer
\* than every cached one, and leaves the class as it is otherwise
C17_ForceRefreshStoresOnlyNewer ==
  [][\A F \in FileIds :
       ForcedRun(F) =>
         IF \A G \in FileIds : cache.p5min[G].present => G < F
         THEN StoredNow(F)
         ELSE cache'.p5min = cache.p5min]_vars

\* ========================================================= directory listing
\* get_latest_file_url (fetch_prices.py) and get_latest_dispatch_file
\* (fetch_dispatch_historical.py): the links of the listing page, the files
\* list built from those whose href matches the pattern, the sort, files[0].
\* A file_id is the string of digits the pattern captures, here IdWidth
\* digits; an href is the file_id it holds and the rest of the name.
MaxLinks == 3                      \* links of a listing page
IdWidth == 2                       \* digits of a file_id (12 in the program)
Digits == {0, 1}
FileIdStrings == [1..IdWidth -> Digits]
NameRests == {"a", "b"}
Links == [match : BOOLEAN, timestamp_str : FileIdStrings, rest : NameRests]
ListingPages == UNION {[1..n -> Links] : n \in 0..MaxLinks}
ListingFns == {"get_latest_file_url", "get_latest_dispatch_file"}

\* str < str on strings of digits, character by character
RECURSIVE StrLess(_, _)
StrLess(a, b) ==
  IF a = << >> THEN b # << >>
  ELSE IF b = << >> THEN FALSE
  ELSE IF Head(a) # Head(b) THEN Head(a) < Head(b)
  ELSE StrLess(Tail(a), Tail(b))
\* the url built from an href: the hrefs of one page share what stands before
\* the file name, so two urls compare as file_id and then the rest of the name
UrlOf(link) == [timestamp_str |-> link.timestamp_str, rest |-> link.rest]
UrlLess(u, v) ==
  \/ StrLess(u.timestamp_str, v.timestamp_str)
  \/ u.timestamp_str = v.timestamp_str /\ u.rest = "a" /\ v.rest = "b"
\* (timestamp_str, url) < (timestamp_str, url): tuples compare item by item
TupleLess(f, g) ==
  \/ StrLess(f[1], g[1])
  \/ f[1] = g[1] /\ UrlLess(f[2], g[2])

\* a mutant: the list is left in the order of the page
SortReverse_Unsorted(files) == files
\* files.sort(reverse=True)
RECURSIVE SortReverse(_)
SortReverse(files) ==
  IF Len(files) <= 1 THEN files
  ELSE LET rest == SortReverse(Tail(files))
           f == Head(files)
           above == SelectSeq(rest, LAMBDA g : TupleLess(f, g))
           below == SelectSeq(rest, LAMBDA g : ~TupleLess(f, g))
       IN above \o <<f>> \o below

NoUrl == [timestamp_str |-> << >>, rest |-> ""]
NotFound == [found |-> FALSE, url |-> NoUrl, file_id |-> << >>]
Found(url, file_id) == [found |-> TRUE, url |-> url, file_id |-> file_id]
ListingCall(fn, page) ==
  [fn |-> fn, pc |-> "request", page |-> page, i |-> 0, files |-> << >>,
   result |-> NotFound]

\* requests.get and raise_for_status succeed: the page is there to be read
ListingResponse ==
  /\ listing.pc = "request"
  /\ listing' = [listing EXCEPT !.pc = "scan"]
  /\ UNCHANGED <<jobvars, parse, ucache, retry, lookup>>

\* the request raises: the handler returns None
ListingRequestFails ==
  /\ listing.pc = "request"
  /\ listing' = [listing EXCEPT !.pc = "failed", !.result = NotFound]
  /\ UNCHANGED <<jobvars, parse, ucache, retry, lookup>>

\* one link of the loop over soup.find_all('a', href=True)
ListingScanLink ==
  /\ listing.pc = "scan"
  /\ listing.i < Len(listing.page)
  /\ LET link == listing.page[listing.i + 1]
     IN listing' = [listing EXCEPT
          !.i = @ + 1,
          !.files = IF link.match THEN Append(@, <<link.timestamp_str, UrlOf(link)>>) ELSE @]
  /\ UNCHANGED <<jobvars, parse, ucache, retry, lookup>>

\* after the loop: None when files is empty, else sort and return files[0]
ListingReturn ==
  /\ listing.pc = "scan"
  /\ listing.i = Len(listing.page)
  /\ listing' = [listing EXCEPT
       !.pc = "returned",
       !.result = IF listing.files = << >> THEN NotFound
                  ELSE LET latest == SortReverse(listing.files)[1]
                       IN Found(latest[2], latest[1])]
  /\ UNCHANGED <<jobvars, parse, ucache, retry, lookup>>

InitListing ==
  /\ InitJob
  /\ parse = NoParse
  /\ ucache = NoUCache
  /\ retry = NoRetry
  /\ lookup = NoLookup
  /\ listing \in {ListingCall(fn, page) : fn \in ListingFns, page \in ListingPages}
NextListing == ListingResponse \/ ListingRequestFails \/ ListingScanLink \/ ListingReturn
SpecListing == InitListing /\ [][NextListing]_vars

\* ------------------------------------------------- claims on the listing
MatchingLinks == {n \in 1..Len(listing.page) : listing.page[n].match}
\* the value of a string of digits
RECURSIVE DigitsValue(_)
DigitsValue(s) == IF s = << >> THEN 0 ELSE 10 * DigitsValue(SubSeq(s, 1, Len(s) - 1)) + s[Len(s)]

\* C18: get_latest_file_url (and get_latest_dispatch_file) returns the
\* (url, file_id) pair of a matching link whose file_id is the maximum over
\* all matching links of the listing, and not-found when no link matches.
C18_LatestIsMaximum ==
  (listing.pc = "returned") =>
    IF MatchingLinks = {}
    THEN ~listing.result.found
    ELSE /\ listing.result.found
         /\ \E n \in MatchingLinks :
              /\ listing.page[n].timestamp_str = listing.result.file_id
              /\ listing.page[n].rest = listing.result.url.rest
              /\ listing.page[n].timestamp_str = listing.result.url.timestamp_str
         /\ \A n \in MatchingLinks :
              DigitsValue(listing.page[n].timestamp_str) <= DigitsValue(listing.result.file_id)

\* C18 witness: the page lists three links, the newest matching one is not
\* the first, and a link that does not match carries a greater number
C18_Witness ==
  /\ listing.pc = "returned" /\ listing.result.found
  /\ Len(listing.page) = MaxLinks
  /\ listing.page[1].match
  /\ listing.page[1].timestamp_str # listing.result.file_id
  /\ \E n \in 1..Len(listing.page) :
       /\ ~listing.page[n].match
       /\ DigitsValue(listing.page[n].timestamp_str) > DigitsValue(listing.result.file_id)

\* ============================================================ retry locator
\* smart_fetch_with_retry one attempt at a time.  Each attempt is a call of
\* get_latest_file_url, whose outcome the server decides: None (0) or the
\* newest file_id of the listing it served.  A result carries the number of
\* the attempt that gave it, in place of its url.
MaxAttempts == 5                   \* max_attempts, and USER_AGENTS has six entries
MaxRetryId == 3                    \* file identifiers of the listings 1..MaxRetryId
RetryIds == 1..MaxRetryId
NoResult == [found |-> FALSE, file_id |-> 0, attempt |-> 0]
Result(file_id, attempt) == [found |-> TRUE, file_id |-> file_id, attempt |-> attempt]
RetryCall(current_cached_timestamp) ==
  [pc |-> "loop", current_cached_timestamp |-> current_cached_timestamp,
   attempt |-> 0, seen |-> << >>, best_result |-> NoResult,
   best_timestamp |-> current_cached_timestamp, result |-> NoResult]

\* a mutant: the loop goes on after it found newer data
retry_attempt_NoBreak(s, latest) ==
  LET attempt == s.attempt + 1
      result == IF latest = 0 THEN NoResult ELSE Result(latest, attempt)
      tried == [s EXCEPT !.attempt = attempt, !.seen = Append(@, result)]
  IN IF result.found /\ (s.best_timestamp = 0 \/ result.file_id > s.best_timestamp)
     THEN [tried EXCEPT !.best_result = result, !.best_timestamp = result.file_id]
     ELSE tried
\* a mutant: a failed attempt raises out of the function
retry_attempt_Raises(s, latest) ==
  LET attempt == s.attempt + 1
      result == IF latest = 0 THEN NoResult ELSE Result(latest, attempt)
      tried == [s EXCEPT !.attempt = attempt, !.seen = Append(@, result)]
  IN IF ~result.found THEN [tried EXCEPT !.pc = "raised"]
     ELSE IF s.best_timestamp = 0 \/ result.file_id > s.best_timestamp
     THEN [tried EXCEPT !.best_result = result, !.best_timestamp = result.file_id,
                        !.pc = "break"]
     ELSE tried
\* one turn of the loop over strategies; latest is what get_latest_file_url
\* returned (0: None)
retry_attempt(s, latest) ==
  LET attempt == s.attempt + 1
      result == IF latest = 0 THEN NoResult ELSE Result(latest, attempt)
      tried == [s EXCEPT !.attempt = attempt, !.seen = Append(@, result)]
  IN IF result.found /\ (s.best_timestamp = 0 \/ result.file_id > s.best_timestamp)
     THEN [tried EXCEPT !.best_result = result, !.best_timestamp = result.file_id,
                        !.pc = "break"]
     ELSE tried

RetryAttempt ==
  /\ retry.pc = "loop"
  /\ retry.attempt < MaxAttempts
  /\ \E latest \in {0} \cup RetryIds : retry' = retry_attempt(retry, latest)
  /\ UNCHANGED <<jobvars, parse, ucache, listing, lookup>>

\* after the loop (break, or the strategies are used up): best_result or None
RetryReturn ==
  /\ retry.pc = "break" \/ (retry.pc = "loop" /\ retry.attempt = MaxAttempts)
  /\ retry' = [retry EXCEPT !.pc = "returned",
                            !.result = IF retry.best_result.found THEN retry.best_result
                                       ELSE NoResult]
  /\ UNCHANGED <<jobvars, parse, ucache, listing, lookup>>

InitRetry ==
  /\ InitJob
  /\ parse = NoParse
  /\ ucache = NoUCache
  /\ listing = NoListing
  /\ retry \in {RetryCall(c) : c \in {0} \cup RetryIds}
  /\ lookup = NoLookup
NextRetry == RetryAttempt \/ RetryReturn
SpecRetry == InitRetry /\ [][NextRetry]_vars

\* --------------------------------------------------- claims on the retry
\* attempt n yielded a file_id strictly newer than the baseline (any file_id
\* when the caller gave none)
YieldedNewer(n) ==
  /\ retry.seen[n].found
  /\ retry.current_cached_timestamp = 0
       \/ retry.seen[n].file_id > retry.current_cached_timestamp
Requests == Len(retry.seen)

\* C19: smart_fetch_with_retry issues no listing request after the first
\* attempt that yields a file_id strictly newer than the baseline, and
\* returns that attempt's result.
C19_StopsAtFirstNewer ==
  (retry.pc # "idle") =>
    \A n \in 1..Requests :
      YieldedNewer(n) =>
        /\ Requests = n
        /\ retry.pc = "returned" => retry.result = retry.seen[n]

\* C19 witness: the call returned the result of its third attempt, newer
\* than the baseline, after two attempts that yielded the baseline and None
C19_Witness ==
  /\ retry.pc = "returned"
  /\ Requests = 3 /\ YieldedNewer(3)
  /\ retry.current_cached_timestamp # 0
  /\ retry.seen[1].found /\ retry.seen[1].file_id = retry.current_cached_timestamp
  /\ ~retry.seen[2].found
  /\ retry.result.attempt = 3

SeenIds == {retry.seen[n].file_id : n \in {m \in 1..Requests : retry.seen[m].found}}

\* C20: when no attempt finds a file_id strictly newer than the baseline but
\* at least one attempt returned a listing result, the function returns the
\* best result seen (the greatest file_id), not the not-found value.
C20_ReturnsBestSeen ==
  (/\ retry.pc = "returned"
   /\ \A n \in 1..Requests : ~YieldedNewer(n)
   /\ SeenIds # {})
    => /\ retry.result.found
       /\ \A id \in SeenIds : id <= retry.result.file_id

\* what the function returns then: the not-found value, after all attempts
C20_NoNewerReturnsNotFound ==
  (retry.pc = "returned" /\ \A n \in 1..Requests : ~YieldedNewer(n))
    => (~retry.result.found /\ Requests = MaxAttempts)

\* the scheduler runs the call to its end: a step that can be taken is taken
SpecRetryFair == SpecRetry /\ WF_vars(NextRetry)

AllFailed == \A n \in 1..Requests : ~retry.seen[n].found

\* C21: smart_fetch_with_retry terminates after at most max_attempts listing
\* requests, and when every attempt failed it returns the not-found value.
C21_TerminatesWithinBudget ==
  /\ <>(retry.pc = "returned")
  /\ [](retry.pc # "idle" => Requests <= MaxAttempts)
  /\ []((retry.pc = "returned" /\ AllFailed) => ~retry.result.found)

\* C21 witness: the call returned not-found after five attempts that all failed
C21_Witness ==
  /\ retry.pc = "returned"
  /\ Requests = MaxAttempts
  /\ AllFailed
  /\ ~retry.result.found

\* ========================================================= retention horizon
\* The scheduler of auto_sync.py runs a cycle every five minutes for as long
\* as the process lives, so a cycle can come any time after the records
\* were written.  LongWait lets more than the forecast-retention horizon
\* pass at once: after it every key of Times is older than the horizon.
RetentionHorizon == 2 * 12          \* 2 hours, in intervals
LongWait ==
  /\ now <= MaxNow
  /\ now' = now + RetentionHorizon + MaxFile + FcSpan
  /\ UNCHANGED <<store, cache, dispatch_cache, stamp, report, op, last, runs, fnvars>>
NextRetention == Next \/ LongWait
SpecRetention == Init /\ [][NextRetention]_vars

PastHorizon(k) == k[2] + RetentionHorizon < now

\* C22: each sync cycle removes dispatch_5min and dispatch_30min from every
\* record whose settlement timestamp is more than 2 hours in the past and
\* recomputes Forecast_Price (null with no forecast source left), and
\* leaves the record's historical_price in place.
C22_RetentionPass ==
  [][SyncStep =>
       \A k \in Keys :
         (store[k].exists /\ PastHorizon(k)) =>
           /\ store'[k].dispatch_5min.state # "set"
           /\ store'[k].dispatch_30min.state # "set"
           /\ store'[k].Forecast_Price = NoneVal
           /\ store[k].historical_price.state = "set"
                => store'[k].historical_price.state = "set"]_vars

\* what a cycle does to a record past the horizon that no file of the cycle
\* covers: nothing
C22_OldRecordsUntouched ==
  [][SyncStep =>
       \A k \in Keys :
         (store[k].exists /\ PastHorizon(k) /\ ~InPriceMap(last'.offered[k]))
           => store'[k] = store[k]]_vars

\* ------------------------------------------------ claims on the run's report
Offered(k) == InPriceMap(last'.offered[k])
Failed(k) == last'.outcomes[k] = "error"
\* the key was handled: its merge ran to an outcome, and a write is in the store
Processed(k) ==
  /\ last'.outcomes[k] \in {"write", "skipped", "error"}
  /\ last'.outcomes[k] = "write" => store'[k].exists /\ store'[k].last_updated = stamp'
  /\ last'.outcomes[k] = "skipped" => store'[k] = store[k]

\* C23: a failure while processing one key is caught and recorded as an
\* error, and every remaining key of that region and of later regions is
\* still processed in the same run.
C23_KeyFailureDoesNotAbort ==
  [][SyncStep =>
       /\ report'.key_errors = Cardinality({k \in Keys : Failed(k)})
       /\ \A k \in Keys : Failed(k) => \A j \in Keys : Offered(j) => Processed(j)]_vars

\* C23 witness: a run in which a key failed and a later key of the same
\* region and a key of the next region were written
C23_Witness ==
  /\ op.name = "sync"
  /\ \E k \in Keys :
       /\ last.outcomes[k] = "error"
       /\ k[1] = NEM_REGIONS[1]
       /\ \E j \in Keys : /\ j[1] = k[1] /\ j[2] > k[2]
                          /\ last.outcomes[j] = "write" /\ store[j].last_updated = stamp
       /\ \E j \in Keys : /\ j[1] = NEM_REGIONS[2]
                          /\ last.outcomes[j] = "write" /\ store[j].last_updated = stamp

\* ================================================================ exit code
\* the value sync_price_data_to_mongodb returns: False without a connection,
\* else len(errors) == 0, where errors holds the failed dispatch fetch of the
\* run and the failed keys
sync_return(connected, rep) == connected /\ rep.key_errors + rep.fetch_errors = 0
\* main(): sys.exit(1) when the sync returned False
main_exit(connected, rep) == IF sync_return(connected, rep) THEN 0 ELSE 1

\* C24: the sync command exits nonzero only when the store cannot be reached
\* or cleared; with the store reachable it exits zero even if keys or
\* source fetches were recorded as errors.
C24_ExitZeroWhenReachable ==
  (op.name = "sync") => main_exit(TRUE, report) = 0

\* what the command does: with the store reachable it exits zero exactly
\* when no key and no dispatch fetch was recorded as an error
C24_ExitZeroIffNoErrors ==
  (op.name = "sync") =>
    (main_exit(TRUE, report) = 0 <=> (report.key_errors = 0 /\ report.fetch_errors = 0))

\* ------------------------------------------- claims on the dispatch fetch
\* a cycle whose dispatch listing, download or parse failed
FailedDispatchCycle == SyncStep /\ last'.up.dispatch.ts = 0
NoHistoricalProposed == \A k \in Keys : ~last'.offered[k].historical.present

\* C25: when the dispatch fetch of a cycle fails, the cycle proposes no
\* historical value for any region, also when an earlier cycle of the same
\* process fetched dispatch data.
C25_FailedDispatchProposesNothing ==
  [][FailedDispatchCycle => NoHistoricalProposed]_vars

\* it holds when no earlier cycle of the process fetched a dispatch file
C25_FirstFailedDispatchProposesNothing ==
  [][(FailedDispatchCycle /\ ~dispatch_cache.valid) => NoHistoricalProposed]_vars

\* ============================================================= price lookup
\* get_price_at_timestamp (data_collection/device_usage_collector.py) on the
\* collection the sync writes.  Time is counted in minutes.  The timestamp
\* of a record is the string the parsers wrote, a local time at +10:00; a
\* string of this format compares as its local time and then its offset.
\* The datetime asked for is an instant (given as its +10:00 wall time) in
\* the zone the caller localizes to, Australia/Sydney: +10:00 or, in
\* daylight-saving time, +11:00.
FiveMinutes == 5                   \* timedelta(minutes=5)
SydneyOffsets == {AEST_FIXED, AEST_FIXED + 60}
RecordTimes == {0, 5, 10, 60, 65}  \* settlement times of the records held
AskedInstants == {3, 5, 7}         \* instants asked for
LookupRegion == "VIC1"
IsoString(local, utcoffset) == [local |-> local, utcoffset |-> utcoffset]
\* timestamp.isoformat() of an aware datetime
datetime_isoformat(instant, utcoffset) == IsoString(instant + (utcoffset - AEST_FIXED), utcoffset)
\* timestamp +/- timedelta(minutes=n) keeps the zone
StrLE(a, b) == a.local < b.local \/ (a.local = b.local /\ a.utcoffset <= b.utcoffset)

\* a record: region, timestamp, historical_price.price and Forecast_Price
\* (NoneVal: the field is null or missing)
PriceRecord(region, t, historical, forecast) ==
  [region |-> region, timestamp |-> IsoString(t, AEST_FIXED),
   historical_price |-> historical, Forecast_Price |-> forecast]
\* what a record of time t holds: each price names its record and its source
Holdings == {"none", "historical", "forecast", "both", "neither"}
RecordsAt(region, t, holding) ==
  IF holding = "none" THEN {}
  ELSE {PriceRecord(region, t,
                    IF holding \in {"historical", "both"} THEN 100 + t ELSE NoneVal,
                    IF holding \in {"forecast", "both"} THEN 200 + t ELSE NoneVal)}
\* collections: at most one record per (region, timestamp), as the unique index has it
Collections ==
  {UNION {RecordsAt(LookupRegion, t, c[t]) : t \in RecordTimes} \cup other :
     c \in [RecordTimes -> Holdings],
     other \in {{}, {PriceRecord("NSW1", 5, 999, NoneVal)}}}
NoPrice == [found |-> FALSE, price_per_kwh |-> 0, price_source |-> "", timestamp |-> IsoString(0, 0)]

\* find_one(query, sort=[('timestamp', 1)]): the first record by timestamp
find_one_sorted(docs) ==
  IF docs = {} THEN {}
  ELSE {CHOOSE d \in docs : \A e \in docs : StrLE(d.timestamp, e.timestamp)}

\* the record the two queries give (a set of at most one record)
find_doc(coll, region, ts_iso) ==
  LET exact == {d \in coll : d.region = region /\ d.timestamp = ts_iso}
      start_ts == IsoString(ts_iso.local - FiveMinutes, ts_iso.utcoffset)
      end_ts == IsoString(ts_iso.local + FiveMinutes, ts_iso.utcoffset)
      in_range == {d \in coll : /\ d.region = region
                                /\ StrLE(start_ts, d.timestamp)
                                /\ StrLE(d.timestamp, end_ts)}
  IN IF exact # {} THEN exact ELSE find_one_sorted(in_range)

\* the price taken from the record found
price_of_doc(doc, prefer_historical) ==
  LET first == IF prefer_historical THEN doc.historical_price ELSE doc.Forecast_Price
      second == IF prefer_historical THEN doc.Forecast_Price ELSE doc.historical_price
      first_name == IF prefer_historical THEN "historical_price" ELSE "Forecast_Price"
      second_name == IF prefer_historical THEN "Forecast_Price" ELSE "historical_price"
  IN IF first # NoneVal
     THEN [found |-> TRUE, price_per_kwh |-> first, price_source |-> first_name,
           timestamp |-> doc.timestamp]
     ELSE IF second # NoneVal
     THEN [found |-> TRUE, price_per_kwh |-> second, price_source |-> second_name,
           timestamp |-> doc.timestamp]
     ELSE NoPrice

get_price_at_timestamp(coll, region, instant, utcoffset, prefer_historical) ==
  LET docs == find_doc(coll, region, datetime_isoformat(instant, utcoffset))
  IN IF docs = {} THEN NoPrice
     ELSE price_of_doc(CHOOSE d \in docs : TRUE, prefer_historical)

LookupCall(coll, instant, utcoffset, prefer_historical) ==
  [pc |-> "called", coll |-> coll, instant |-> instant, utcoffset |-> utcoffset,
   prefer_historical |-> prefer_historical, result |-> NoPrice]

GetPriceAtTimestamp ==
  /\ lookup.pc = "called"
  /\ lookup' = [lookup EXCEPT
       !.pc = "returned",
       !.result = get_price_at_timestamp(lookup.coll, LookupRegion, lookup.instant,
                                         lookup.utcoffset, lookup.prefer_historical)]
  /\ UNCHANGED <<jobvars, parse, ucache, listing, retry>>

InitLookup ==
  /\ InitJob
  /\ parse = NoParse
  /\ ucache = NoUCache
  /\ listing = NoListing
  /\ retry = NoRetry
  /\ lookup \in {LookupCall(coll, instant, utcoffset, prefer_historical) :
                   coll \in Collections, instant \in AskedInstants,
                   utcoffset \in SydneyOffsets, prefer_historical \in BOOLEAN}
NextLookup == GetPriceAtTimestamp
SpecLookup == InitLookup /\ [][NextLookup]_vars

\* --------------------------------------------------- claims on the lookup
\* the instant of a record, as +10:00 wall time in minutes
InstantOf(d) == d.timestamp.local - (d.timestamp.utcoffset - AEST_FIXED)
Distance(d) == IF InstantOf(d) >= lookup.instant THEN InstantOf(d) - lookup.instant
               ELSE lookup.instant - InstantOf(d)
RegionRecords == {d \in lookup.coll : d.region = LookupRegion}
Near == {d \in RegionRecords : Distance(d) <= 5}
\* the records the claim lets the function use
Eligible ==
  IF \E d \in RegionRecords : Distance(d) = 0
  THEN {d \in RegionRecords : Distance(d) = 0}
  ELSE {d \in Near : \A e \in Near : Distance(d) <= Distance(e)}
BestOf(d) == IF d.historical_price # NoneVal THEN d.historical_price ELSE d.Forecast_Price

\* C26: get_price_at_timestamp(region, t) uses the record at exactly t when
\* one exists, otherwise the record of the region nearest to t within 5
\* minutes, and returns nothing when none lies within 5 minutes; the price
\* is the historical price when present, else the best forecast.
C26_NearestRecordPrice ==
  (lookup.pc = "returned" /\ lookup.prefer_historical) =>
    IF Near = {}
    THEN ~lookup.result.found
    ELSE lookup.result.found =>
           \E d \in Eligible : /\ lookup.result.timestamp = d.timestamp
                               /\ lookup.result.price_per_kwh = BestOf(d)

\* what holds: for an instant on the five-minute grid asked at +10:00 the
\* record at exactly that instant is used when it exists
C26_ExactRecordOutsideDst ==
  (/\ lookup.pc = "returned" /\ lookup.prefer_historical
   /\ lookup.utcoffset = AEST_FIXED
   /\ \E d \in RegionRecords : Distance(d) = 0 /\ BestOf(d) # NoneVal)
    => \E d \in RegionRecords : /\ Distance(d) = 0
                                /\ lookup.result.found
                                /\ lookup.result.timestamp = d.timestamp
                                /\ lookup.result.price_per_kwh = BestOf(d)

PutInPriceMap == {k \in Keys : InPriceMap(last'.offered[k])}
WithOutcome(o) == {k \in PutInPriceMap : last'.outcomes[k] = o}
\* the keys the run wrote that had no document before it, and those that had one
WroteNew == {k \in WithOutcome("write") : ~last'.before[k].exists}
WroteOver == {k \in WithOutcome("write") : last'.before[k].exists}

ProposesHistorical(k) == last'.offered[k].historical.present
\* the time of the dispatch file the proposal for k names, in intervals
ProposedFileTime(k) == last'.offered[k].historical.source_file[1].ts
\* the dispatch point the run holds, and whether it passes both tests: before
\* the current time, and at most 5 minutes (one interval) after its file
HoldsPoint == dispatch_cache'.valid
PointTime == dispatch_cache'.ts
PointFileTime == dispatch_cache'.source_file[1].ts
PointPasses == PointTime < now /\ PointTime - PointFileTime <= 1
NoForecastFor(k) == ~last'.offered[k].p5min.present /\ ~last'.offered[k].predispatch.present

\* C29: a run of the sync proposes a historical value for a key only if the
\* key's time is strictly before the current time and at most 5 minutes after
\* the time of the dispatch file; when the point the run holds fails either
\* test, no key of its time gets a historical proposal and, where no forecast
\* covers the key either, its record is left as it was (none is created)
C29_HistoricalOnlyPastAndNearFile ==
  [][SyncStep =>
       /\ \A k \in Keys : ProposesHistorical(k) =>
            /\ k[2] < now
            /\ last'.offered[k].historical.source_file # EmptyName
            /\ k[2] - ProposedFileTime(k) <= 1
       /\ (HoldsPoint /\ ~PointPasses) =>
            \A r \in RegionSet :
               /\ ~ProposesHistorical(<<r, PointTime>>)
               /\ NoForecastFor(<<r, PointTime>>) =>
                    store'[<<r, PointTime>>] = store[<<r, PointTime>>]]_vars
\* a run that held a dispatch point not before the current time, proposed no
\* historical value and left the store without a record of the point's time
C29_Witness ==
  /\ op.name = "sync" /\ last.valid
  /\ dispatch_cache.valid /\ dispatch_cache.ts >= last.now
  /\ \A k \in Keys : ~last.offered[k].historical.present
  /\ \E r \in RegionSet : ~store[<<r, dispatch_cache.ts>>].exists

\* ------------------------------------------- one cache entry for all regions
\* a run without the force flag whose 5-minute listing shows file F
PlainRun(F) == SyncStep /\ ~op'.force /\ last'.up.p5min = F
\* before the run the 5-minute class holds F as its newest key, saved for region r
CachedFor(F, r) ==
  /\ cache.p5min[F].present /\ cache.p5min[F].region = r
  /\ \A G \in FileIds : cache.p5min[G].present => G <= F
\* the run downloaded and parsed F for region r: the report it used was fetched in this run
DownloadedFor(F, r) ==
  /\ last'.offered[<<r, F>>].p5min.present
  /\ last'.offered[<<r, F>>].p5min.fetched_at = stamp'

\* C30: the cache holds one entry per class and file_id, whatever the region.
\* When a run without the force flag finds the listed file cached for one
\* region, the fetch for each other region is no hit and downloads the
\* archive again; its save replaces the entry, so a fetch that follows for
\* the region first cached downloads again too, and the entry ends as the
\* last region's, fetched in this run
C30_OneRegionPerEntry ==
  [][\A F \in FileIds :
       (PlainRun(F) /\ \E r \in RegionSet : CachedFor(F, r)) =>
          /\ \A q \in RegionSet : ~CachedFor(F, q) => DownloadedFor(F, q)
          /\ CachedFor(F, "NSW1") => DownloadedFor(F, "NSW1")
          /\ cache'.p5min[F].present
          /\ cache'.p5min[F].region = "NSW1"
          /\ cache'.p5min[F].fetched_at = stamp']_vars
\* a second run over the same file: the first run stored the file's price for
\* both regions, the second downloaded it again and the entry is the second
\* region's, fetched in the second run
C30_Witness ==
  /\ op.name = "sync" /\ ~op.force /\ stamp = 2
  /\ \E F \in FileIds :
       /\ last.up.p5min = F
       /\ last.before[<<"NSW1", F>>].dispatch_5min.state = "set"
       /\ last.before[<<"NSW1", F>>].dispatch_5min.file_timestamp = F
       /\ last.before[<<"NSW1", F>>].dispatch_5min.fetched_at = 1
       /\ last.offered[<<"VIC1", F>>].p5min.fetched_at = 2
       /\ cache.p5min[F].region = "NSW1" /\ cache.p5min[F].fetched_at = 2

====
